---- MODULE Spec2Model ----
(***************************************************************************)
(* Model of the trigger-word resolver of nodes/CustomLoraLoader.py: the    *)
(* JSON cache (load_keywords_from_json, save_keywords_to_json), the        *)
(* paginated search worker (search_civitai_paginated) and the orchestrator *)
(* (fetch_triggers_for_lora) with its two pool workers and the             *)
(* as_completed loop.                                                      *)
(***************************************************************************)
EXTENDS Integers, Sequences, FiniteSets, TLC

\* ---- bounds ----
MaxPages == 2
\* longest identifier of the query derivation
MaxName == 5

\* ---- domains ----
\* identifiers the endpoint is called with
Ids == {"foo_v2", "bar"}
\* model_types_to_search, in submission order
model_types_to_search == <<"LORA", "LoCon">>
Partitions == {model_types_to_search[k] : k \in 1..Len(model_types_to_search)}
\* a string json.loads accepts and UTF-8 cannot encode (a lone surrogate)
Unencodable == "ud800"
\* the lists of words the remote catalog can hold as trainedWords of a version
WordLists == {<< >>, <<"a">>, <<"b">>, <<Unencodable>>}

\* ---- Python values ----
None == [type |-> "None"]
List(ws) == [type |-> "list", items |-> ws]
Dict(e, r) == [type |-> "dict", error |-> e, retry |-> r]
Str(t) == [type |-> "str", text |-> t]
\* an exception stored in a future (future.result() re-raises it)
Exc == [type |-> "exception"]
\* a future that holds nothing yet (or was cancelled before it ran)
NoResult == [type |-> "pending"]

ErrorText == "API search failed or no match found after full search."
error_info == Dict(ErrorText, TRUE)

\* truth value of a Python object, as `if x:` tests it
Truthy(v) ==
    CASE v.type = "list" -> Len(v.items) > 0
      [] v.type = "dict" -> TRUE
      [] v.type = "str" -> v.text # ""
      [] OTHER -> FALSE

\* what a call hands to its caller
Return(v) == [kind |-> "return", value |-> v]
Raise == [kind |-> "raise"]
NoCall == [kind |-> "none"]

\* ---- the cache document ----
\* Missing: no file. Corrupt: a file json.load rejects with JSONDecodeError or
\* UnicodeDecodeError (this includes a file cut short). Unloadable: a file on
\* which open or json.load raises something else (OSError on a directory,
\* RecursionError on deep nesting, ValueError on an integer of more than 4300
\* digits).
Missing == [kind |-> "missing"]
Corrupt == [kind |-> "corrupt"]
Unloadable == [kind |-> "unloadable"]
EmptyStore == [i \in Ids |-> None]

\* json.dump(data, f, ensure_ascii=False) into the text file: a string UTF-8
\* cannot encode makes the write raise UnicodeEncodeError
Encodable(data) ==
    \A i \in Ids :
        data[i].type = "list" =>
            \A k \in 1..Len(data[i].items) : data[i].items[k] # Unencodable
SaveRaises(data) == ~Encodable(data)

\* the document save_keywords_to_json leaves: the whole mapping, or, when the
\* write raises, the file opened with mode 'w' and cut short
save_keywords_to_json(data) ==
    IF SaveRaises(data) THEN Corrupt ELSE [kind |-> "doc", map |-> data]

\* the value load_keywords_from_json returns for a document it can load
load_keywords_from_json(d) ==
    CASE d.kind = "missing" -> EmptyStore
      [] d.kind = "corrupt" -> EmptyStore
      [] OTHER -> d.map

\* the document load_keywords_from_json leaves behind
doc_untouched(d) == d
DocAfterLoad(d) ==
    IF d.kind = "missing" THEN save_keywords_to_json(EmptyStore) ELSE d

\* entries a document written by hand or by an earlier run can hold
DocEntries ==
    {None, List(<< >>), List(<<"a">>), List(<<Unencodable>>), Str("abc"),
     Dict(ErrorText, TRUE), Dict(ErrorText, FALSE)}
InitialDocs == {Missing, Corrupt, Unloadable} \cup {[kind |-> "doc", map |-> m] : m \in [Ids -> DocEntries]}

\* ---- the remote catalog ----
\* the JSON values the remote catalog can hold as trainedWords of a version
\* (line 80 returns the value as it is): a list of words, a string, the empty
\* string, a mapping, null
TrainedWords ==
    {List(w) : w \in WordLists} \cup {Str("abc"), Str(""), Dict(ErrorText, FALSE), None}

\* One page of a partition: status "fail" is a failure of the fetch raised as
\* requests.exceptions.RequestException (transport failure, HTTP error status,
\* a body json rejects with JSONDecodeError, which requests >= 2.27 wraps),
\* "undecodable" a body on which response.json() raises anything else
\* (RecursionError on deep nesting, ValueError on an integer of more than 4300
\* digits, any JSON error with requests < 2.27), "malformed" a body that decodes
\* but is not the expected mapping, "ok" a well-formed page whose items are
\* empty, hold no file with the searched stem, or hold a version with such a
\* file whose trainedWords are `words`. next: the page carries metadata.nextPage.
Page(s, it, w, n) == [status |-> s, items |-> it, words |-> w, next |-> n]
NoMatchNext == Page("ok", "nomatch", None, TRUE)
TerminalPages ==
    {Page("fail", "none", None, FALSE), Page("undecodable", "none", None, FALSE),
     Page("malformed", "none", None, FALSE), Page("ok", "nomatch", None, FALSE)}
    \cup {Page("ok", "empty", None, n) : n \in BOOLEAN}
    \cup {Page("ok", "match", w, n) : w \in TrainedWords, n \in BOOLEAN}
\* cursor chains of 1..MaxPages pages; a page is fetched only through the
\* cursor of the page before it
Chains ==
    UNION {{[k \in 1..len |-> IF k < len THEN NoMatchNext ELSE t] : t \in TerminalPages}
           : len \in 1..MaxPages}
Catalogs == [Partitions -> Chains]
\* chains whose last cursor names the first page again: a catalog that never
\* serves a page without cursor, an empty page or a match
CyclicChains == {[k \in 1..len |-> NoMatchNext] : len \in 1..MaxPages}
LoopingCatalogs == [Partitions -> Chains \cup CyclicChains]
\* the page a cursor names: the cursor of the last page of a chain leads back
\* to its first page
Follow(chain, url) == IF url > Len(chain) THEN 1 ELSE url
\* fetched counts up to MaxFetch, one more than the pages of any chain
MaxFetch == MaxPages + 1
NoCatalog == [p \in Partitions |-> << >>]

\* ---- the query derivation (lines 105-108) ----
\* Strings are sequences of one-character strings.
Alphabet == {"a", "B", "_", "-", " ", ".", "/"}
\* identifiers of 1..MaxName characters (the route matches a non-empty name)
Names == UNION {[1..n -> Alphabet] : n \in 1..MaxName}
Separator == <<"%", "2", "0">>

\* str.rfind(ch): the last index of ch in s, counted from 1; 0 when absent
rfind(s, ch) ==
    LET at == {k \in 1..Len(s) : s[k] = ch} IN
    IF at = {} THEN 0 ELSE CHOOSE k \in at : \A j \in at : j <= k

\* Path(s).name: the last component of the path that is neither empty nor "."
RECURSIVE name(_)
name(s) ==
    IF s = << >> THEN << >>
    ELSE LET k == rfind(s, "/")
             last == SubSeq(s, k + 1, Len(s))
         IN IF last = << >> \/ last = <<".">>
              THEN IF k = 0 THEN << >> ELSE name(SubSeq(s, 1, k - 1))
              ELSE last

\* Path(s).stem: the name without its last suffix; a dot that starts or ends
\* the name starts no suffix
stem(s) ==
    LET n == name(s)
        i == rfind(n, ".")
    IN IF 1 < i /\ i < Len(n) THEN SubSeq(n, 1, i - 1) ELSE n

\* s.replace(old, new) for a one-character old
RECURSIVE replace(_, _, _)
replace(s, old, new) ==
    IF s = << >> THEN << >>
    ELSE (IF Head(s) = old THEN new ELSE <<Head(s)>>) \o replace(Tail(s), old, new)

\* s[a:b] with 0 <= a <= b
Slice(s, a, b) ==
    IF a >= Len(s) THEN << >>
    ELSE SubSeq(s, a + 1, IF b < Len(s) THEN b ELSE Len(s))

\* s.lower()
lower(s) == [k \in 1..Len(s) |-> IF s[k] = "B" THEN "b" ELSE s[k]]

\* s.strip(): leading and trailing whitespace removed
RECURSIVE lstrip(_)
lstrip(s) == IF s # << >> /\ Head(s) = " " THEN lstrip(Tail(s)) ELSE s
RECURSIVE rstrip(_)
rstrip(s) ==
    IF s # << >> /\ s[Len(s)] = " " THEN rstrip(SubSeq(s, 1, Len(s) - 1)) ELSE s
strip(s) == rstrip(lstrip(s))

\* lines 106-107: the stem with "_" and "-" replaced by "%20"
Normalized(st) == replace(replace(st, "_", Separator), "-", Separator)
query_word_1(st) == strip(lower(Slice(Normalized(st), 0, 3)))
second_fragment_to_end(st) == strip(lower(Slice(Normalized(st), 3, Len(Normalized(st)))))
query_word_2(st) == strip(lower(Slice(Normalized(st), 3, 6)))
\* line 108
derive_query(st) == query_word_1(st) \o Separator \o query_word_2(st)
\* the identifiers of Ids, character by character
IdChars(i) == IF i = "foo_v2" THEN <<"f", "o", "o", "_", "v", "2">>
                              ELSE <<"b", "a", "r">>

\* line 58: the URL of the first page, by its query and types parameters
base_url(q, model_type) == [query |-> q, types |-> model_type]

VARIABLES
    query,          \* the query of the call (line 108), << >> outside a search
    pc,             \* where the main thread is: boot, idle, submit, collect, exiting, returned
                    \* (crashed: the import of the module failed)
    disk,           \* the document JSON_FILE
    LORA_KEYWORDS_CACHE,
    lora_name,      \* argument of the current (or last) call
    cached_data,    \* LORA_KEYWORDS_CACHE.get(lora_name) of that call
    catalog,        \* what the remote catalog serves during that call
    wstate,         \* per partition: idle, queued, running, done, cancelled
    current_page_url, \* per partition: index of the page to fetch, 0 = None
    fetched,        \* per partition: session.get calls of the worker
    result,         \* per partition: what the future holds
    consumed,       \* futures the as_completed loop has yielded
    found_words,
    match_found_with_empty_keywords,
    raised,         \* an exception is propagating out of the with-block
    ret,            \* what the call hands to the endpoint handler
    cache_writes,   \* assignments to LORA_KEYWORDS_CACHE[lora_name] in that call
    saves           \* calls of save_keywords_to_json in that call

vars == <<query, pc, disk, LORA_KEYWORDS_CACHE, lora_name, cached_data, catalog,
          wstate, current_page_url, fetched, result, consumed, found_words,
          match_found_with_empty_keywords, raised, ret, cache_writes, saves>>

callVars == <<wstate, current_page_url, fetched, result, consumed, found_words,
              match_found_with_empty_keywords, raised, catalog>>

Init ==
    /\ pc = "boot"
    /\ query = << >>
    /\ disk \in InitialDocs
    /\ LORA_KEYWORDS_CACHE = EmptyStore
    /\ lora_name = "foo_v2"
    /\ cached_data = None
    /\ catalog = NoCatalog
    /\ wstate = [p \in Partitions |-> "idle"]
    /\ current_page_url = [p \in Partitions |-> 0]
    /\ fetched = [p \in Partitions |-> 0]
    /\ result = [p \in Partitions |-> NoResult]
    /\ consumed = {}
    /\ found_words = None
    /\ match_found_with_empty_keywords = FALSE
    /\ raised = FALSE
    /\ ret = NoCall
    /\ cache_writes = 0
    /\ saves = 0

\* the except clause of lines 31-32 catches JSONDecodeError and
\* UnicodeDecodeError only: every other exception of open and json.load
\* leaves load_keywords_from_json, and the import of the module fails
LoadRaises(d) == d.kind = "unloadable"

\* module import: LORA_KEYWORDS_CACHE = load_keywords_from_json()
Load ==
    /\ pc = "boot"
    /\ IF LoadRaises(disk)
         THEN /\ pc' = "crashed"
              /\ UNCHANGED <<LORA_KEYWORDS_CACHE, disk>>
         ELSE /\ LORA_KEYWORDS_CACHE' = load_keywords_from_json(disk)
              /\ disk' = DocAfterLoad(disk)
              /\ pc' = "idle"
    /\ UNCHANGED <<lora_name, cached_data, ret, cache_writes, saves, query>>
    /\ UNCHANGED callVars

\* get_lora_keywords_endpoint (lines 152-155) calls fetch_triggers_for_lora
\* without awaiting anything: the event loop starts a handler only when no
\* other handler is inside its call
handler_awaits(at) == at \in {"idle", "collect"}
HandlerCanRun(at) == at = "idle"

\* the test of lines 97-101: TRUE when the call goes on to search
stale_is_miss(c) == ~Truthy(c) \/ (c.type = "dict" /\ c.retry)
sticky_error(c) == c.type = "None"
MustSearch(c) == c.type = "None" \/ (c.type = "dict" /\ c.retry)

\* fetch_triggers_for_lora answered from the cache (line 101)
CallCached(i) ==
    /\ HandlerCanRun(pc)
    /\ ~MustSearch(LORA_KEYWORDS_CACHE[i])
    /\ lora_name' = i
    /\ cached_data' = LORA_KEYWORDS_CACHE[i]
    /\ ret' = Return(LORA_KEYWORDS_CACHE[i])
    /\ pc' = "returned"
    /\ cache_writes' = 0
    /\ saves' = 0
    /\ UNCHANGED <<disk, LORA_KEYWORDS_CACHE, query>>
    /\ UNCHANGED callVars

\* fetch_triggers_for_lora up to the opening of the pool (lines 96-115), no
\* work item submitted yet; catalogs: what the remote catalog may serve during
\* the call
CallSearch(i, catalogs) ==
    /\ HandlerCanRun(pc)
    /\ MustSearch(LORA_KEYWORDS_CACHE[i])
    /\ lora_name' = i
    /\ cached_data' = LORA_KEYWORDS_CACHE[i]
    /\ \E cat \in catalogs : catalog' = cat
    /\ query' = derive_query(stem(IdChars(i)))
    /\ wstate' = [p \in Partitions |-> "idle"]
    /\ current_page_url' = [p \in Partitions |-> 0]
    /\ fetched' = [p \in Partitions |-> 0]
    /\ result' = [p \in Partitions |-> NoResult]
    /\ consumed' = {}
    /\ found_words' = None
    /\ match_found_with_empty_keywords' = FALSE
    /\ raised' = FALSE
    /\ ret' = NoCall
    /\ pc' = "submit"
    /\ cache_writes' = 0
    /\ saves' = 0
    /\ UNCHANGED <<disk, LORA_KEYWORDS_CACHE>>

\* the positions of model_types_to_search no work item was submitted for yet,
\* and the partition the comprehension of lines 116-119 submits next
NotSubmitted(ws) ==
    {k \in 1..Len(model_types_to_search) : ws[model_types_to_search[k]] = "idle"}
NextToSubmit(ws) ==
    model_types_to_search[CHOOSE k \in NotSubmitted(ws) : \A j \in NotSubmitted(ws) : k <= j]

\* one executor.submit of lines 116-119; after the last one the main thread
\* enters the as_completed loop
SubmitWorker ==
    /\ pc = "submit"
    /\ wstate' = [wstate EXCEPT ![NextToSubmit(wstate)] = "queued"]
    /\ pc' = IF Cardinality(NotSubmitted(wstate)) = 1 THEN "collect" ELSE "submit"
    /\ UNCHANGED <<disk, LORA_KEYWORDS_CACHE, lora_name, cached_data, catalog,
                   current_page_url, fetched, result, consumed, found_words,
                   match_found_with_empty_keywords, raised, ret, cache_writes,
                   saves, query>>

\* ThreadPoolExecutor(max_workers=4): a queued work item is taken as soon as
\* fewer than max_workers pool threads are busy
pool_below_partitions == Cardinality(Partitions) - 1
max_workers == 4
Busy(ws) == {q \in Partitions : ws[q] = "running"}

\* a pool thread takes the work item and enters search_civitai_paginated
WorkerStart(p) ==
    /\ wstate[p] = "queued"
    /\ Cardinality(Busy(wstate)) < max_workers
    /\ wstate' = [wstate EXCEPT ![p] = "running"]
    /\ current_page_url' = [current_page_url EXCEPT ![p] = 1]
    /\ UNCHANGED <<pc, disk, LORA_KEYWORDS_CACHE, lora_name, cached_data,
                   catalog, fetched, result, consumed, found_words,
                   match_found_with_empty_keywords, raised, ret, cache_writes,
                   saves, query>>

\* one iteration of the while loop on a fetched page: whether the worker
\* ends, what it ends with, and the next value of current_page_url
stops_after_first_page(page, url) ==
    CASE page.status = "fail" -> [done |-> TRUE, result |-> None, url |-> url]
      [] page.status \in {"undecodable", "malformed"} ->
            [done |-> TRUE, result |-> Exc, url |-> url]
      [] page.items = "empty" -> [done |-> TRUE, result |-> None, url |-> url]
      [] page.items = "match" -> [done |-> TRUE, result |-> page.words, url |-> url]
      [] OTHER -> [done |-> TRUE, result |-> None, url |-> 0]
empty_match_is_none(page, url) ==
    CASE page.status = "fail" -> [done |-> TRUE, result |-> None, url |-> url]
      [] page.status \in {"undecodable", "malformed"} ->
            [done |-> TRUE, result |-> Exc, url |-> url]
      [] page.items = "empty" -> [done |-> TRUE, result |-> None, url |-> url]
      [] page.items = "match" ->
            [done |-> TRUE,
             result |-> IF page.words = List(<< >>) THEN None ELSE page.words,
             url |-> url]
      [] OTHER ->
            IF page.next THEN [done |-> FALSE, result |-> NoResult, url |-> url + 1]
                         ELSE [done |-> TRUE, result |-> None, url |-> 0]
empty_page_follows_cursor(page, url) ==
    CASE page.status = "fail" -> [done |-> TRUE, result |-> None, url |-> url]
      [] page.status \in {"undecodable", "malformed"} ->
            [done |-> TRUE, result |-> Exc, url |-> url]
      [] page.items = "match" -> [done |-> TRUE, result |-> page.words, url |-> url]
      [] OTHER ->
            IF page.next THEN [done |-> FALSE, result |-> NoResult, url |-> url + 1]
                         ELSE [done |-> TRUE, result |-> None, url |-> 0]
cursor_not_advanced(page, url) ==
    CASE page.status = "fail" -> [done |-> TRUE, result |-> None, url |-> url]
      [] page.status \in {"undecodable", "malformed"} ->
            [done |-> TRUE, result |-> Exc, url |-> url]
      [] page.items = "empty" -> [done |-> TRUE, result |-> None, url |-> url]
      [] page.items = "match" -> [done |-> TRUE, result |-> page.words, url |-> url]
      [] OTHER ->
            IF page.next THEN [done |-> FALSE, result |-> NoResult, url |-> url]
                         ELSE [done |-> TRUE, result |-> None, url |-> 0]
PageStep(page, url) ==
    CASE page.status = "fail" -> [done |-> TRUE, result |-> None, url |-> url]
      [] page.status \in {"undecodable", "malformed"} ->
            [done |-> TRUE, result |-> Exc, url |-> url]
      [] page.items = "empty" -> [done |-> TRUE, result |-> None, url |-> url]
      [] page.items = "match" -> [done |-> TRUE, result |-> page.words, url |-> url]
      [] OTHER ->
            IF page.next THEN [done |-> FALSE, result |-> NoResult, url |-> url + 1]
                         ELSE [done |-> TRUE, result |-> None, url |-> 0]

\* search_civitai_paginated run to its end on a cursor chain, from page url
RECURSIVE WalkFrom(_, _)
WalkFrom(chain, url) ==
    IF url \notin 1..Len(chain) THEN None
    ELSE LET st == PageStep(chain[url], url) IN
         IF st.done THEN st.result ELSE WalkFrom(chain, st.url)
search_civitai_paginated(chain) == WalkFrom(chain, 1)

\* one page fetch of the worker of partition p and the handling of the page
WorkerFetch(p) ==
    /\ wstate[p] = "running"
    /\ current_page_url[p] \in 1..Len(catalog[p])
    /\ LET st == PageStep(catalog[p][current_page_url[p]], current_page_url[p]) IN
        /\ fetched' = [fetched EXCEPT ![p] = IF @ < MaxFetch THEN @ + 1 ELSE @]
        /\ current_page_url' = [current_page_url EXCEPT ![p] = Follow(catalog[p], st.url)]
        /\ result' = [result EXCEPT ![p] = st.result]
        /\ wstate' = [wstate EXCEPT ![p] = IF st.done THEN "done" ELSE "running"]
    /\ UNCHANGED <<pc, disk, LORA_KEYWORDS_CACHE, lora_name, cached_data,
                   catalog, consumed, found_words,
                   match_found_with_empty_keywords, raised, ret, cache_writes,
                   saves, query>>

\* executor.shutdown(wait=False, cancel_futures=True): work items no thread
\* has taken yet are cancelled
CancelQueued(ws) == [p \in Partitions |-> IF ws[p] = "queued" THEN "cancelled" ELSE ws[p]]

\* where the main thread is after an iteration of the as_completed loop on a
\* result r, cons being the futures yielded so far: future.result() raised, the
\* break of line 127, or the loop ran out of futures
break_on_match(r, cons) ==
    IF r = Exc \/ r # None \/ cons = Partitions THEN "exiting" ELSE "collect"
LoopExit(r, cons) ==
    IF r = Exc \/ Truthy(r) \/ cons = Partitions THEN "exiting" ELSE "collect"

\* future.result() (line 122): an exception stored in the future is raised
\* again in the main thread, and nothing around the call catches it
swallows(r) == FALSE
Reraises(r) == r = Exc

\* one iteration of the as_completed loop on the finished future of p
Consume(p) ==
    /\ pc = "collect"
    /\ wstate[p] = "done"
    /\ p \notin consumed
    /\ consumed' = consumed \cup {p}
    /\ IF Reraises(result[p])
         THEN /\ raised' = TRUE
              /\ UNCHANGED <<found_words, match_found_with_empty_keywords, wstate>>
       ELSE IF Truthy(result[p])
         THEN /\ found_words' = result[p]
              /\ wstate' = CancelQueued(wstate)
              /\ UNCHANGED <<match_found_with_empty_keywords, raised>>
       ELSE /\ match_found_with_empty_keywords' =
                    (match_found_with_empty_keywords \/ result[p] # None)
            /\ UNCHANGED <<found_words, wstate, raised>>
    /\ pc' = LoopExit(result[p], consumed')
    /\ UNCHANGED <<disk, LORA_KEYWORDS_CACHE, lora_name, cached_data,
                   catalog, current_page_url, fetched, result, ret,
                   cache_writes, saves, query>>

\* lines 133-144: the entry written for the outcome of the loop
entry_sticky(fw, flag) ==
    IF Truthy(fw) THEN fw ELSE IF flag THEN List(<< >>) ELSE Dict(ErrorText, FALSE)
empty_on_no_match(fw, flag) ==
    IF Truthy(fw) THEN fw ELSE List(<< >>)
CacheEntry(fw, flag) ==
    IF Truthy(fw) THEN fw ELSE IF flag THEN List(<< >>) ELSE error_info

\* lines 133-147: the value found_words holds at the return of line 147
ReturnValue(fw, flag) == IF Truthy(fw) THEN fw ELSE List(<< >>)

\* LORA_KEYWORDS_CACHE[lora_name] = value (lines 135, 138, 143): the entry of
\* the key is replaced, every other entry of the mapping stays
set_keeps_error(store, key, value) ==
    IF store[key].type = "dict" THEN store ELSE [store EXCEPT ![key] = value]
SetEntry(store, key, value) == [store EXCEPT ![key] = value]

\* the exit of the with-block (line 115) calls shutdown(wait=True): it returns
\* when no work item is queued or running any more
no_join(ws) == TRUE
Joined(ws) == \A p \in Partitions : ws[p] \in {"done", "cancelled"}

\* the with-block has joined the pool threads: an exception propagates, or
\* the outcome is cached, found_words gets the value to return (lines 139,
\* 144), the store is saved and the value returned, unless the save raises
\* (lines 130-147)
Finish ==
    /\ pc = "exiting"
    /\ Joined(wstate)
    /\ pc' = "returned"
    /\ IF raised
         THEN /\ ret' = Raise
              /\ UNCHANGED <<disk, LORA_KEYWORDS_CACHE, cache_writes, saves, found_words>>
         ELSE /\ LORA_KEYWORDS_CACHE' =
                    SetEntry(LORA_KEYWORDS_CACHE, lora_name,
                             CacheEntry(found_words, match_found_with_empty_keywords))
              /\ cache_writes' = cache_writes + 1
              /\ found_words' = ReturnValue(found_words, match_found_with_empty_keywords)
              /\ disk' = save_keywords_to_json(LORA_KEYWORDS_CACHE')
              /\ saves' = saves + 1
              /\ ret' = IF SaveRaises(LORA_KEYWORDS_CACHE')
                          THEN Raise
                          ELSE Return(found_words')
    /\ UNCHANGED <<lora_name, cached_data, query, wstate, current_page_url, fetched,
                   result, consumed, match_found_with_empty_keywords, raised, catalog>>

\* get_lora_keywords_endpoint after the call: the response leaves with the
\* returned value (or the exception reaches the server), the locals of the
\* call are gone
Respond ==
    /\ pc = "returned"
    /\ pc' = "idle"
    /\ ret' = NoCall
    /\ lora_name' = "foo_v2"
    /\ cached_data' = None
    /\ catalog' = NoCatalog
    /\ wstate' = [p \in Partitions |-> "idle"]
    /\ current_page_url' = [p \in Partitions |-> 0]
    /\ fetched' = [p \in Partitions |-> 0]
    /\ result' = [p \in Partitions |-> NoResult]
    /\ consumed' = {}
    /\ found_words' = None
    /\ match_found_with_empty_keywords' = FALSE
    /\ raised' = FALSE
    /\ cache_writes' = 0
    /\ saves' = 0
    /\ query' = << >>
    /\ UNCHANGED <<disk, LORA_KEYWORDS_CACHE>>

Next ==
    \/ Load
    \/ \E i \in Ids : CallCached(i)
    \/ \E i \in Ids : CallSearch(i, Catalogs)
    \/ SubmitWorker
    \/ \E p \in Partitions : WorkerStart(p)
    \/ \E p \in Partitions : WorkerFetch(p)
    \/ \E p \in Partitions : Consume(p)
    \/ Finish
    \/ Respond

Spec == Init /\ [][Next]_vars

\* ---- one resolution to its end ----
\* one call that goes on to search, on a catalog that may loop, with the steps
\* the code's scheduling guarantees: the main thread submits the work items,
\* a pool thread takes a queued work item, a
\* page fetch returns or fails (timeout=30, line 64), as_completed yields a
\* finished future, the with-block exits once the pool is joined
TermInit == Init /\ disk = Missing
TermNext ==
    \/ Load
    \/ \E i \in Ids : CallSearch(i, LoopingCatalogs)
    \/ SubmitWorker
    \/ \E p \in Partitions : WorkerStart(p)
    \/ \E p \in Partitions : WorkerFetch(p)
    \/ \E p \in Partitions : Consume(p)
    \/ Finish
TermSpec ==
    /\ TermInit
    /\ [][TermNext]_vars
    /\ \A p \in Partitions :
          /\ WF_vars(WorkerStart(p))
          /\ WF_vars(WorkerFetch(p))
          /\ WF_vars(Consume(p))
    /\ WF_vars(SubmitWorker)
    /\ WF_vars(Finish)

\* ---- the query derivation on its own ----
\* a call for any identifier of Names that goes on to search, up to the start
\* of its workers, in a process whose import found no document and created
\* the empty one (lines 23-27, 40): here lora_name is the identifier character
\* by character, and current_page_url the URL a worker starts from (line 60)
QueryInit ==
    /\ pc = "idle"
    /\ query = << >>
    /\ lora_name \in Names
    /\ disk = DocAfterLoad(Missing)
    /\ LORA_KEYWORDS_CACHE = EmptyStore
    /\ cached_data = None
    /\ catalog = NoCatalog
    /\ wstate = [p \in Partitions |-> "idle"]
    /\ current_page_url = [p \in Partitions |-> 0]
    /\ fetched = [p \in Partitions |-> 0]
    /\ result = [p \in Partitions |-> NoResult]
    /\ consumed = {}
    /\ found_words = None
    /\ match_found_with_empty_keywords = FALSE
    /\ raised = FALSE
    /\ ret = NoCall
    /\ cache_writes = 0
    /\ saves = 0

\* lines 96-115 of a call that finds no entry: the query is derived from the
\* stem of the identifier
QueryCall ==
    /\ pc = "idle"
    /\ pc' = "submit"
    /\ query' = derive_query(stem(lora_name))
    /\ UNCHANGED <<lora_name, disk, LORA_KEYWORDS_CACHE, cached_data, catalog,
                   wstate, current_page_url, fetched, result, consumed, found_words,
                   match_found_with_empty_keywords, raised, ret, cache_writes, saves>>

\* a pool thread takes the work item of p and runs search_civitai_paginated
\* up to line 60: the worker starts from its base_url
QueryWorkerStart(p) ==
    /\ wstate[p] = "queued"
    /\ Cardinality(Busy(wstate)) < max_workers
    /\ wstate' = [wstate EXCEPT ![p] = "running"]
    /\ current_page_url' = [current_page_url EXCEPT ![p] = base_url(query, p)]
    /\ UNCHANGED <<pc, disk, LORA_KEYWORDS_CACHE, lora_name, cached_data,
                   catalog, fetched, result, consumed, found_words,
                   match_found_with_empty_keywords, raised, ret, cache_writes,
                   saves, query>>

QueryNext ==
    \/ QueryCall
    \/ SubmitWorker
    \/ \E p \in Partitions : QueryWorkerStart(p)
QuerySpec == QueryInit /\ [][QueryNext]_vars

TypeOK ==
    /\ pc \in {"boot", "idle", "submit", "collect", "exiting", "returned", "crashed"}
    /\ \A p \in Partitions : wstate[p] \in {"idle", "queued", "running", "done", "cancelled"}

\* ---- properties ----
NonEmptyList(v) == v.type = "list" /\ Len(v.items) > 0
EmptyList == List(<< >>)
\* the call that has just ended went through the search (lines 103-147)
Searched == pc = "returned" /\ MustSearch(cached_data)
RetryEntry(v) == v.type = "dict" /\ v.retry
Persisted(i) == IF disk.kind = "doc" THEN disk.map[i] ELSE None

\* C1: on a cache miss, if some partition returns a non-empty list, the call
\* ends with Keywords: one such list is returned and written to the cache,
\* whatever the other partition did and in whatever order they completed.
C1_NonEmptyWins ==
    (Searched /\ \E p \in Partitions : NonEmptyList(result[p]))
    => \E p \in Partitions :
          /\ NonEmptyList(result[p])
          /\ ret = Return(result[p])
          /\ LORA_KEYWORDS_CACHE[lora_name] = result[p]

\* C2: an entry that is a list (Keywords or Empty) is never changed by any
\* step, and a call for its identifier ends in that one step, with no worker
\* dispatched and no page fetched, returns the entry and leaves the document
\* alone; a call that stores a list returns the list it stored.
C2_CacheIdempotence ==
    [][\A i \in Ids :
        /\ LORA_KEYWORDS_CACHE[i].type = "list" =>
             /\ LORA_KEYWORDS_CACHE'[i] = LORA_KEYWORDS_CACHE[i]
             /\ (pc = "idle" /\ pc' # "idle" /\ lora_name' = i) =>
                  /\ pc' = "returned"
                  /\ ret' = Return(LORA_KEYWORDS_CACHE[i])
                  /\ \A p \in Partitions : fetched'[p] = 0 /\ wstate'[p] = "idle"
                  /\ disk' = disk
        /\ (pc' = "returned" /\ lora_name' = i /\ ret'.kind = "return"
              /\ LORA_KEYWORDS_CACHE'[i].type = "list")
             => ret' = Return(LORA_KEYWORDS_CACHE'[i])
      ]_vars
C2_Witness ==
    /\ pc = "returned"
    /\ lora_name = "bar"
    /\ cached_data = List(<<"b">>)
    /\ ret = Return(List(<<"b">>))
    /\ LORA_KEYWORDS_CACHE["foo_v2"] = EmptyList

\* C3: a call that finds a retryable error entry for its identifier is not
\* answered from the cache: both workers are dispatched, and by the time the
\* call ends at least one page fetch has been issued.
C3_RetryLiveness ==
    (pc \in {"submit", "collect", "exiting", "returned"} /\ RetryEntry(cached_data))
    => /\ pc # "submit" => \A p \in Partitions : wstate[p] # "idle"
       /\ pc = "returned" => \E p \in Partitions : fetched[p] >= 1
C3_Witness ==
    /\ pc = "returned"
    /\ cached_data = error_info
    /\ ret = Return(List(<<"a">>))
    /\ \E p \in Partitions : fetched[p] >= 1

\* C4: every call of fetch_triggers_for_lora ends by returning a value; no
\* exception reaches the caller.
C4_NeverFails == pc = "returned" => ret.kind = "return"

\* C5: on a cache miss, if no partition returns a non-empty list and some
\* partition returns an empty list, the empty list is cached and returned.
C5_EmptyOutranksNoMatch ==
    (/\ Searched
     /\ \A p \in Partitions : ~NonEmptyList(result[p])
     /\ \E p \in Partitions : result[p] = EmptyList)
    => /\ ret = Return(EmptyList)
       /\ LORA_KEYWORDS_CACHE[lora_name] = EmptyList

\* C6: on a cache miss, if every worker returns None, the entry written for
\* the identifier is an error record whose retry flag is true.
C6_AllNoneIsRetryableError ==
    (Searched /\ \A p \in Partitions : result[p] = None)
    => /\ LORA_KEYWORDS_CACHE[lora_name].type = "dict"
       /\ LORA_KEYWORDS_CACHE[lora_name].retry = TRUE
C6_Witness ==
    /\ Searched
    /\ \A p \in Partitions : result[p] = None /\ fetched[p] = MaxPages
    /\ LORA_KEYWORDS_CACHE[lora_name] = error_info

\* the verdict the tie-break rule gives for a set of per-partition outcomes;
\* a set with a crashed worker and no non-empty list has no verdict ("none")
TieBreak(outcomes) ==
    IF \E o \in outcomes : NonEmptyList(o) THEN "Keywords"
    ELSE IF Exc \in outcomes THEN "none"
    ELSE IF EmptyList \in outcomes THEN "Empty"
    ELSE "Error"
\* the verdict a finished call has reached, "none" when it raised
Classification ==
    IF ret.kind # "return" THEN "none"
    ELSE IF NonEmptyList(LORA_KEYWORDS_CACHE[lora_name]) THEN "Keywords"
    ELSE IF LORA_KEYWORDS_CACHE[lora_name] = EmptyList THEN "Empty"
    ELSE "Error"

\* C7: the classification of a resolution is a function of the set of
\* outcomes the partitions produce (here what each worker yields on its
\* chain), the same for every order of completion.
C7_ArrivalOrderDeterminism ==
    Searched =>
        Classification = TieBreak({search_civitai_paginated(catalog[p]) : p \in Partitions})

\* C8: whatever the cache holds for the identifier, the value the call returns
\* (the body of the response) is a list of trigger words, never an error
\* record.
C8_ResultShape ==
    (pc = "returned" /\ ret.kind = "return") => ret.value.type = "list"

\* C9: a resolution that ends with the Error outcome returns an empty list and
\* leaves, in the cache and in the document, an entry flagged for retry.
C9_DegradeOnError ==
    (/\ Searched
     /\ cache_writes = 1
     /\ ~Truthy(found_words)
     /\ ~match_found_with_empty_keywords)
    => /\ ret = Return(EmptyList)
       /\ RetryEntry(LORA_KEYWORDS_CACHE[lora_name])
       /\ RetryEntry(Persisted(lora_name))

\* C10: a resolution that has classified its outcome has saved the whole
\* store before it ends, and whenever a call has returned, the document equals
\* the in-memory store, which holds an entry for a resolved identifier.
C10_PersistOnEveryMutation ==
    /\ (pc = "returned" /\ cache_writes = 1)
          => (disk.kind = "doc" /\ disk.map = LORA_KEYWORDS_CACHE)
    /\ (pc = "returned" /\ ret.kind = "return")
          => /\ disk.kind = "doc"
             /\ disk.map = LORA_KEYWORDS_CACHE
             /\ MustSearch(cached_data) => LORA_KEYWORDS_CACHE[lora_name] # None

\* the chain of C11: every page has items and no matching file, every page
\* but the last carries a cursor
NoMatchChain(c) ==
    /\ Len(c) >= 1
    /\ \A k \in 1..Len(c) : c[k] = Page("ok", "nomatch", None, k < Len(c))

\* C11: on a no-match cursor chain of K pages the worker fetches page after
\* page (it is never past the chain and never stuck), and ends with None after
\* exactly K page fetches.
C11_PaginationTermination ==
    \A p \in Partitions :
        NoMatchChain(catalog[p]) =>
            /\ fetched[p] <= Len(catalog[p])
            /\ wstate[p] = "running" =>
                 /\ fetched[p] < Len(catalog[p])
                 /\ current_page_url[p] = fetched[p] + 1
            /\ wstate[p] = "done" =>
                 /\ result[p] = None
                 /\ fetched[p] = Len(catalog[p])
C11_Witness ==
    \E p \in Partitions :
        /\ NoMatchChain(catalog[p])
        /\ Len(catalog[p]) = MaxPages
        /\ wstate[p] = "done"
        /\ result[p] = None
        /\ fetched[p] = MaxPages

\* C12: once the worker has fetched a page holding a file with the searched
\* stem, it has ended with the trainedWords of that version and has fetched no
\* further page, cursor or not; a list is returned as a list, never as None,
\* also when it is empty.
C12_MatchReturnsAtOnce ==
    \A p \in Partitions : \A k \in 1..Len(catalog[p]) :
        (catalog[p][k].status = "ok" /\ catalog[p][k].items = "match" /\ fetched[p] >= k)
        => /\ wstate[p] = "done"
           /\ result[p] = catalog[p][k].words
           /\ catalog[p][k].words.type = "list" => result[p] # None
           /\ fetched[p] = k
C12_Witness ==
    \E p \in Partitions :
        /\ Len(catalog[p]) = MaxPages
        /\ catalog[p][MaxPages] = Page("ok", "match", EmptyList, TRUE)
        /\ wstate[p] = "done"
        /\ result[p] = EmptyList
        /\ fetched[p] = MaxPages

\* C13: once the worker has fetched a page with an empty item list, it has
\* ended with None and has fetched no further page, cursor or not; an empty
\* first page ends the search after one fetch.
C13_EmptyPageExhausts ==
    \A p \in Partitions : \A k \in 1..Len(catalog[p]) :
        (catalog[p][k].status = "ok" /\ catalog[p][k].items = "empty" /\ fetched[p] >= k)
        => /\ wstate[p] = "done"
           /\ result[p] = None
           /\ fetched[p] = k
C13_Witness ==
    \E p \in Partitions :
        /\ catalog[p] = <<Page("ok", "empty", None, TRUE)>>
        /\ wstate[p] = "done"
        /\ result[p] = None
        /\ fetched[p] = 1

\* what a finished call has made of the single result r that counted: the
\* entry it wrote and, when it returns, the value it returns
ContributedAlone(r) ==
    /\ cache_writes = 1
    /\ IF Truthy(r)
         THEN /\ LORA_KEYWORDS_CACHE[lora_name] = r
              /\ ret.kind = "return" => ret = Return(r)
       ELSE IF r # None
         THEN /\ LORA_KEYWORDS_CACHE[lora_name] = EmptyList
              /\ ret.kind = "return" => ret = Return(EmptyList)
       ELSE /\ RetryEntry(LORA_KEYWORDS_CACHE[lora_name])
            /\ ret.kind = "return" => ret = Return(EmptyList)

\* C14: a worker whose page fetch fails, by a transport failure or by a body
\* that cannot be decoded (first page or a later one), has ended with None, not
\* with an exception; an exception in the resolver then comes from the other
\* worker only, and by the end of the call the other worker has completed and
\* its result decides the outcome.
C14_FetchFailureAbsorbed ==
    \A p \in Partitions :
        (/\ Len(catalog[p]) >= 1
         /\ catalog[p][Len(catalog[p])].status \in {"fail", "undecodable"}
         /\ fetched[p] = Len(catalog[p]))
        => /\ wstate[p] = "done"
           /\ result[p] = None
           /\ raised => \E q \in Partitions \ {p} : result[q] = Exc
           /\ pc = "returned" =>
                \A q \in Partitions \ {p} :
                    /\ wstate[q] = "done"
                    /\ result[q] # Exc => ContributedAlone(result[q])

\* C15: the load of a document that cannot be parsed does not fail and gives
\* an empty store, and the first call that returns from there replaces the
\* document by one holding exactly the entry it resolved.
C15_CorruptDocument ==
    [][/\ (pc = "boot" /\ disk.kind \in {"corrupt", "unloadable"}) =>
            (pc' = "idle" /\ LORA_KEYWORDS_CACHE' = EmptyStore)
       /\ (disk = Corrupt /\ LORA_KEYWORDS_CACHE = EmptyStore
             /\ pc' = "returned" /\ ret'.kind = "return") =>
            /\ LORA_KEYWORDS_CACHE'[lora_name] # None
            /\ disk' = [kind |-> "doc",
                        map |-> [EmptyStore EXCEPT
                                   ![lora_name] = LORA_KEYWORDS_CACHE'[lora_name]]]
      ]_vars

\* C16: the load of a missing document leaves a document holding the empty
\* mapping and an empty in-memory store.
C16_MissingDocument ==
    [][(pc = "boot" /\ disk = Missing) =>
            /\ pc' = "idle"
            /\ disk' = [kind |-> "doc", map |-> EmptyStore]
            /\ LORA_KEYWORDS_CACHE' = EmptyStore
            /\ disk'.map = LORA_KEYWORDS_CACHE'
      ]_vars
C16_Witness ==
    /\ pc = "idle"
    /\ disk = [kind |-> "doc", map |-> EmptyStore]
    /\ LORA_KEYWORDS_CACHE = EmptyStore

\* C17: once a non-empty result has won, the call is no longer blocked: it can
\* go on to classify and return, whatever the other worker is doing.
C17_ReturnOnWin ==
    (pc = "exiting" /\ Truthy(found_words)) => ENABLED Finish

\* the winner is a consumed future, and no other consumed future held a
\* non-empty list
WinnerIsFirstNonEmpty ==
    (pc \in {"exiting", "returned"} /\ Truthy(found_words))
    => \E p \in consumed :
          /\ result[p] = found_words
          /\ \A q \in consumed \ {p} : ~NonEmptyList(result[q])

\* C18: the list of the first non-empty future the loop consumed is the
\* outcome; after the win no further future is consumed, found_words does not
\* change, and the call returns and caches exactly that list.
C18_FirstNonEmptyWins ==
    [][/\ WinnerIsFirstNonEmpty'
       /\ (pc = "exiting" /\ Truthy(found_words)) =>
            /\ consumed' = consumed
            /\ found_words' = found_words
            /\ pc' = "returned" =>
                 /\ ret' = Return(found_words)
                 /\ LORA_KEYWORDS_CACHE'[lora_name] = found_words
      ]_vars
\* C19: the loop is left without a winner and without an exception only when
\* every future has been consumed, and a call that returns Empty or Error
\* does so with every worker finished and every result read.
C19_NoEarlyNegativeVerdict ==
    (/\ pc \in {"exiting", "returned"}
     /\ MustSearch(cached_data)
     /\ ~raised
     /\ ~Truthy(found_words))
    => /\ consumed = Partitions
       /\ \A p \in Partitions : wstate[p] = "done"
C19_Witness ==
    /\ pc = "returned"
    /\ result["LORA"] = EmptyList
    /\ result["LoCon"] = None
    /\ fetched["LoCon"] = MaxPages
    /\ ret = Return(EmptyList)
    /\ LORA_KEYWORDS_CACHE[lora_name] = EmptyList

\* C20: a call that went through the search has assigned the cache entry
\* exactly once and saved exactly once; a call answered from the cache has
\* done neither.
C20_OneMutationPerAttempt ==
    pc = "returned" =>
        IF MustSearch(cached_data)
          THEN cache_writes = 1 /\ saves = 1
          ELSE cache_writes = 0 /\ saves = 0

\* C21: the store holds one entry per identifier, and a resolution that
\* returns leaves for its identifier exactly the value it produced, in the
\* store and in the document; after a retry that ends in Keywords or Empty the
\* entry is the returned list and holds no field of the old error record.
C21_WholesaleReplacement ==
    /\ DOMAIN LORA_KEYWORDS_CACHE = Ids
    /\ (Searched /\ ret.kind = "return") =>
          Persisted(lora_name) = LORA_KEYWORDS_CACHE[lora_name]
    /\ (/\ Searched
        /\ cache_writes = 1
        /\ RetryEntry(cached_data)
        /\ (NonEmptyList(found_words)
              \/ (~Truthy(found_words) /\ match_found_with_empty_keywords)))
       => /\ DOMAIN LORA_KEYWORDS_CACHE[lora_name] = {"type", "items"}
          /\ "error" \notin DOMAIN Persisted(lora_name)
          /\ "retry" \notin DOMAIN Persisted(lora_name)
          /\ ret.kind = "return" =>
                /\ LORA_KEYWORDS_CACHE[lora_name] = ret.value
                /\ DOMAIN Persisted(lora_name) = {"type", "items"}
C21_Witness ==
    /\ Searched
    /\ cached_data = error_info
    /\ ret = Return(EmptyList)
    /\ LORA_KEYWORDS_CACHE[lora_name] = EmptyList
    /\ Persisted(lora_name) = EmptyList

\* C22: a search has one work item per partition, and the pool is large
\* enough that a queued work item can always be taken by a pool thread,
\* whatever the other partition's worker is doing.
C22_PoolHeadroom ==
    /\ pc \in {"collect", "exiting"} => \A p \in Partitions : wstate[p] # "idle"
    /\ pc = "submit" => \E p \in Partitions : wstate[p] = "idle"
    /\ \A p \in Partitions : wstate[p] = "queued" => ENABLED WorkerStart(p)
C22_Witness ==
    /\ pc = "collect"
    /\ \A p \in Partitions : wstate[p] = "running" /\ fetched[p] = 1

\* the claim's N, character by character, and its fragment N[a..b)
RECURSIVE StemWithSeparators(_)
StemWithSeparators(st) ==
    IF st = << >> THEN << >>
    ELSE (IF Head(st) \in {"_", "-"} THEN Separator ELSE <<Head(st)>>)
         \o StemWithSeparators(Tail(st))
Fragment(N, a, b) ==
    strip(lower([k \in 1..((IF b < Len(N) THEN b ELSE Len(N)) - a) |-> N[a + k]]))

\* C23: every worker starts from a URL with its own partition and the same
\* query, the lowered and stripped fragments N[0..3) and N[3..6) of the
\* normalized stem N joined by "%20"; an identifier one character longer whose
\* N has the same first six characters gets the same query.
C23_QueryDerivation ==
    pc # "idle" =>
        LET N == StemWithSeparators(stem(lora_name))
            q == Fragment(N, 0, 3) \o Separator \o Fragment(N, 3, 6)
        IN /\ query = q
           /\ \A p \in Partitions :
                wstate[p] = "running" =>
                    /\ current_page_url[p].query = q
                    /\ current_page_url[p].types = p
           /\ \A c \in Alphabet :
                LET longer == stem(lora_name \o <<c>>) IN
                Slice(StemWithSeparators(longer), 0, 6) = Slice(N, 0, 6)
                    => derive_query(longer) = q
C23_Witness ==
    /\ pc = "collect"
    /\ lora_name = <<"a", "B", "_", "-", "a">>
    /\ Len(Normalized(stem(lora_name))) > 6
    /\ \A p \in Partitions :
          /\ wstate[p] = "running"
          /\ current_page_url[p].query = <<"a", "b", "%", "%", "2", "0", "2", "0", "%">>

\* C24: once a call has returned or raised, and until the next call, no
\* worker is queued or running, so no page fetch can be issued: every worker
\* of the call has finished or was cancelled before it started.
C24_NoResidualWork ==
    pc \in {"returned", "idle"} =>
        /\ \A p \in Partitions : wstate[p] \in {"idle", "done", "cancelled"}
        /\ \A p \in Partitions : ~ENABLED WorkerFetch(p)
C24_Witness ==
    /\ pc = "returned"
    /\ ret = Return(List(<<"a">>))
    /\ consumed = {"LORA"}
    /\ wstate["LoCon"] = "done"
    /\ fetched["LoCon"] = MaxPages
    /\ result["LoCon"] = EmptyList

\* C25: the entry a call has written is a non-empty list some worker returned,
\* the empty list when some worker returned a match without words, or an error
\* record whose retry flag is true; nothing else is ever written.
C25_WrittenEntryShape ==
    (pc = "returned" /\ cache_writes > 0) =>
        LET e == LORA_KEYWORDS_CACHE[lora_name] IN
          /\ \/ NonEmptyList(e)
             \/ e = EmptyList
             \/ (e.type = "dict" /\ e.retry = TRUE)
          /\ NonEmptyList(e) => \E p \in consumed : result[p] = e
          /\ e = EmptyList => \E p \in consumed : result[p] # None /\ ~Truthy(result[p])

\* C26: a call changes no entry but the one of its identifier, in the store
\* and in the document, and changes that one only at the step that returns.
C26_FrameOfResolution ==
    [][pc # "boot" =>
        \A j \in Ids :
            (j # lora_name \/ pc # "exiting") =>
                /\ LORA_KEYWORDS_CACHE'[j] = LORA_KEYWORDS_CACHE[j]
                /\ Persisted(j)' = Persisted(j)
      ]_vars
\* C27: once the loop has consumed a crashed worker's future, an exception is
\* propagating and there is no winner; the call then raises, has written
\* neither the store nor the document, and the entry, still the one the call
\* looked up, asks for a search again.
C27_CrashLeavesCacheUntouched ==
    (\E p \in consumed : result[p] = Exc) =>
        /\ raised
        /\ ~Truthy(found_words)
        /\ cache_writes = 0
        /\ saves = 0
        /\ LORA_KEYWORDS_CACHE[lora_name] = cached_data
        /\ pc = "returned" =>
             /\ ret = Raise
             /\ MustSearch(LORA_KEYWORDS_CACHE[lora_name])
C27_Witness ==
    /\ pc = "returned"
    /\ ret = Raise
    /\ cached_data = error_info
    /\ LORA_KEYWORDS_CACHE[lora_name] = error_info
    /\ consumed = Partitions
    /\ result["LORA"] = EmptyList
    /\ result["LoCon"] = Exc

\* C28: while a call is in progress no other call starts: its identifier, its
\* lookup and its catalog stay, its workers only advance, the entry it looked
\* up is still the one in the store, and store and document change only at its
\* return; a request for an identifier whose entry is a list is answered from
\* the cache in one step.
C28_SerializedResolutions ==
    [][/\ pc \in {"submit", "collect", "exiting"} =>
            /\ lora_name' = lora_name
            /\ cached_data' = cached_data
            /\ catalog' = catalog
            /\ consumed \subseteq consumed'
            /\ \A p \in Partitions : fetched'[p] >= fetched[p]
            /\ cached_data = LORA_KEYWORDS_CACHE[lora_name]
            /\ pc' # "returned" =>
                 (LORA_KEYWORDS_CACHE' = LORA_KEYWORDS_CACHE /\ disk' = disk)
       /\ (pc = "idle" /\ pc' # "idle" /\ LORA_KEYWORDS_CACHE[lora_name'].type = "list") =>
            /\ pc' = "returned"
            /\ ret' = Return(LORA_KEYWORDS_CACHE[lora_name'])
            /\ LORA_KEYWORDS_CACHE' = LORA_KEYWORDS_CACHE
      ]_vars
C28_Witness ==
    /\ pc = "returned"
    /\ lora_name = "foo_v2"
    /\ cached_data = List(<<"b">>)
    /\ ret = Return(List(<<"b">>))
    /\ cache_writes = 0
    /\ LORA_KEYWORDS_CACHE["bar"] = error_info

\* C29: a call whose chains are all finite eventually returns; a worker on a
\* chain whose cursors loop never ends, however many pages it has fetched, and
\* once it runs the call never returns, winner or not.
C29_Termination ==
    /\ (pc = "submit" /\ \A p \in Partitions : catalog[p] \in Chains)
          ~> (pc = "returned")
    /\ [](\A p \in Partitions :
            catalog[p] \in CyclicChains =>
                /\ wstate[p] # "done"
                /\ wstate[p] = "running" => (pc # "returned" /\ ENABLED WorkerFetch(p)))
C29_Witness ==
    /\ pc = "exiting"
    /\ found_words = List(<<"a">>)
    /\ catalog["LoCon"] \in CyclicChains
    /\ Len(catalog["LoCon"]) = MaxPages
    /\ wstate["LoCon"] = "running"
    /\ fetched["LoCon"] = MaxFetch
====
